---- MODULE Spec2Model ----
(***************************************************************************)
(* Model of the slider-captcha login automation of tiktokautouploader      *)
(* (Js_assets): the QR login flow (loginAndSaveCookies), the credential    *)
(* login flow (loginWithCredentials), the challenge flow                   *)
(* (handleSlideCaptcha and its response listener and timer), the drag      *)
(* (humanLikeDrag) and the solver client (solveCaptcha, urlToB64).         *)
(*                                                                         *)
(* One action is one synchronous segment of the JavaScript: from the       *)
(* resumption of an await (or the delivery of an event or timer) to the    *)
(* next await.  What an awaited browser, network or pointer operation      *)
(* answers is an input, drawn with \E from a small set.                    *)
(*                                                                         *)
(* Strings are sequences of symbols.  The symbol "P" stands for the text   *)
(* 'https://p16' only in the sense that HostPrefix is the one-symbol       *)
(* string <<"P">>; Includes is the real substring test on these           *)
(* sequences.                                                              *)
(***************************************************************************)
EXTENDS Integers, Sequences, FiniteSets, TLC

\* ------------------------------------------------------------------ bounds

\* The number of response events the page emits in one run.
MaxResponses == 3

\* The length of the longest image argument handed to the command-line
\* wrapper.
MaxImageLen == 5

\* ------------------------------------------------------- program constants

\* viewportWidth < 640 ? 288 : 348, captchaHeight = 40
NarrowViewport == 640
NarrowWidth == 288
WideWidth == 348
CaptchaHeight == 40
\* steps = 40 + Math.floor(Math.random() * 20)
MinSteps == 40
StepSpread == 20
\* The values of Math.floor(Math.random() * 20) tried: the least and the most.
RandomSteps == { 0, StepSpread - 1 }

\* ---------------------------------------------------------------- strings

HostPrefix == <<"P">>

\* String.prototype.includes: p occurs in s at some position.
IncludesAnywhere(s, p) ==
  \E k \in 1..(Len(s) - Len(p) + 1) : SubSeq(s, k, k + Len(p) - 1) = p

Includes(s, p) == IncludesAnywhere(s, p)

\* The URLs a response event may carry: one that starts with the prefix, one
\* that holds it at a later position, one that does not hold it.
Urls ==
  { <<"P", "a">>, <<"x", "P">>, <<"x", "y">> }

\* ------------------------------------------------- values of option fields

\* A field of the options object: absent (undefined after destructuring) or
\* present with a value.  An absent field carries its type's zero value, so
\* that fields stay comparable.
Absent(zero) == [def |-> FALSE, v |-> zero]
Given(val) == [def |-> TRUE, v |-> val]

\* !field is false: the field is present and neither "" nor 0.
TruthyStr(f) == f.def /\ f.v # <<>>
TruthyNum(f) == f.def /\ f.v # 0

StrFields == { Absent(<<>>), Given(<<>>), Given(<<"i">>) }
UrlFields == { Absent(<<>>), Given(<<>>), Given(<<"P", "a">>) }
WidthFields == { Absent(0), Given(0), Given(WideWidth) }
HeightFields == { Absent(0), Given(0), Given(CaptchaHeight) }
CaptchaTypes == { "whirl", "puzzle", "3d", "icon", "other" }

Options ==
  [ captchaType : CaptchaTypes,
    backgroundUrl : UrlFields,
    puzzleUrl : UrlFields,
    imageBase64 : StrFields,
    width : WidthFields,
    height : HeightFields,
    question : StrFields ]

NoOptions ==
  [ captchaType |-> "none",
    backgroundUrl |-> Absent(<<>>),
    puzzleUrl |-> Absent(<<>>),
    imageBase64 |-> Absent(<<>>),
    width |-> Absent(0),
    height |-> Absent(0),
    question |-> Absent(<<>>) ]

\* ------------------------------------------- answers of the solving service

\* The parsed body of the service's answer.  kind "object" is a JSON object
\* with the keys in `keys`; "null" is the JSON value null; "zero" is a falsy
\* JSON primitive (0, false, ""); "unparseable" makes response.json() throw.
\* A key that is absent carries a zero value.
Body(kind, keys, error, x, errorMsg) ==
  [ kind |-> kind, keys |-> keys, error |-> error, x |-> x, errorMsg |-> errorMsg ]

NoBody == Body("none", {}, "", 0, "")

\* The offsets the service may answer; 0 is an offset, not a missing one.
XOffsets == { 0, 142 }

ObjectBodies ==
  { Body("object",
         (IF e = "" THEN {} ELSE {"error"}) \cup
         (IF hx THEN {"x"} ELSE {}) \cup
         (IF m = "absent" THEN {} ELSE {"errorMsg"}),
         e, IF hx THEN x ELSE 0, IF m = "absent" THEN "" ELSE m)
    : e \in {"", "0", "1"}, hx \in BOOLEAN, x \in XOffsets,
      m \in {"absent", "", "bad"} }

Bodies ==
  ObjectBodies \cup
  { Body("unparseable", {}, "", 0, ""),
    Body("null", {}, "", 0, ""),
    Body("zero", {}, "", 0, "") }

\* result.errorMsg is truthy: the key is present and its text is not "".
HasErrorMsg(b) == b.kind = "object" /\ "errorMsg" \in b.keys /\ b.errorMsg # ""

\* ---------------------------------------------------------------- geometry

Point(px, py) == [x |-> px, y |-> py]
Box(bx, by, bw, bh) == [ok |-> TRUE, x |-> bx, y |-> by, width |-> bw, height |-> bh]
\* boundingBox() answered null.
NullBox == [ok |-> FALSE, x |-> 0, y |-> 0, width |-> 0, height |-> 0]
NoPoint == Point(0, 0)

\* Widths and heights are even, so that width / 2 is the integer width \div 2.
BgBoxes == { Box(300, 650, 348, 200), Box(120, 400, 288, 160) }
HandleBoxes == { Box(500, 700, 40, 40) }
ViewportWidths == { 500, 1280 }

\* ------------------------------------------------------------- trajectory

\* Arithmetic is exact: easeT is the fraction EaseNum / EaseDen, a coordinate
\* is the sum of two fractions, its eased part num / den and its jitter
\* jnum / jden.

\* A slip in easeT: the second branch, 1 - pow(-2t + 2, 3) / 2, loses its
\* "1 -".
EaseNumWithoutComplement(i, n) ==
  IF 2 * i < n THEN 8 * i * i * i ELSE 8 * (n - i) * (n - i) * (n - i)

\* t = i / steps; easeT = t < 0.5 ? 4 t^3 : 1 - (-2t + 2)^3 / 2, over the
\* denominator 2 * steps^3.
EaseDen(n) == 2 * n * n * n
EaseNum(i, n) ==
  IF 2 * i < n THEN 8 * i * i * i
               ELSE 2 * n * n * n - 8 * (n - i) * (n - i) * (n - i)

\* A slip in the envelope: sin(t * PI / 2), which is not zero at t = 1.
NoiseNumQuarterWave(i, n) == 16 * i * (2 * n - i)

\* noiseFactor = sin(t * PI), by Bhaskara's fraction
\* 16 t (1 - t) / (5 - 4 t (1 - t)), which has the sine's zeros at t = 0 and
\* t = 1 and its maximum 1 at t = 1/2.
NoiseNum(i, n) == 16 * i * (n - i)
NoiseDen(i, n) == 5 * n * n - 4 * i * (n - i)

\* (Math.random() - 0.5) * 4 lies in [-2, 2): the draws used for x and y.
JitterDraws == { <<-2, 1>>, <<1, -2>> }

\* start + distance * easeT + jitter * noiseFactor, for one axis.
Coord(a, b, i, n, r) ==
  [ num |-> a * EaseDen(n) + (b - a) * EaseNum(i, n),
    den |-> EaseDen(n),
    jnum |-> r * NoiseNum(i, n),
    jden |-> NoiseDen(i, n) ]

\* (randomX, randomY) of loop step i.
TrajectoryPoint(start, end, i, n, r) ==
  Point(Coord(start.x, end.x, i, n, r[1]), Coord(start.y, end.y, i, n, r[2]))

NoPos == Point([num |-> 0, den |-> 1, jnum |-> 0, jden |-> 1],
               [num |-> 0, den |-> 1, jnum |-> 0, jden |-> 1])

VARIABLES
  \* loginWithCredentials
  lpc,          \* where the login flow is
  clicked,      \* the login button's click() was issued
  out,          \* the markers printed: LOGIN_SUCCESS, LOGIN_ERROR
  cookieFile,   \* the cookie file was written
  atForYou,     \* waitForURL(foryou) returned
  loginErrorSeen, \* the login error container was visible at the check
  \* the page's response stream
  emitted,      \* response events emitted so far
  lost,         \* accepted URLs emitted after the click, before page.on
  late,         \* accepted URLs emitted after the listener was removed
  \* handleSlideCaptcha
  listening,    \* responseListener is installed on the page
  everListened, \* page.on('response', ...) was called
  timer,        \* the 25 s timer: "none", "armed", "fired"
  captchaUrls,  \* the closure's buffer
  arrived,      \* every URL the listener accepted, in order
  hpc,          \* where the listener's solving body is
  promise,      \* the attempt's promise
  settleCalls,  \* calls of resolve or reject
  bgBox,
  handleBox,
  solution,     \* what solveCaptcha returned to the listener
  failVisible,  \* what the failure indicator's isVisible() answered
  \* solveCaptcha
  spc,          \* where solveCaptcha is
  sopts,        \* the options it was called with
  solveCalls,   \* the options of every call
  fetches,      \* image URLs fetched (GET)
  posts,        \* endpoints posted to
  httpStatus,   \* the POST's answer: "none", "unreachable", "ok", "notOk"
  httpBody,     \* the body of the POST's response
  sresult,      \* the value solveCaptcha returned
  serr,         \* the failure solveCaptcha threw
  \* humanLikeDrag
  dpc,          \* where the drag is
  di,           \* the loop index i
  dsteps,       \* steps
  dstart,
  dend,
  mouse,        \* the pointer button: "up", "down"
  events,       \* pointer events the call in progress issued, in order
  dpos,         \* the position of the loop's move last issued
  eases,        \* easeT of every loop step so far, as numerators over 2 * steps^3
  dragCalls,    \* the arguments of every call
  dfailed,      \* the pointer call that threw, "none" if none did
  dragReturns,  \* calls that returned
  \* solve_captcha_cli.js
  cpc,          \* where the wrapper is: "idle", "main", "solving", "exited"
  base64Image,  \* process.argv[2]
  exitCode,     \* the process's exit status, -1 while it runs
  cliErr        \* the error the wrapper printed on stderr, "none" if none

loginVars == <<lpc, clicked, out, cookieFile, atForYou, loginErrorSeen>>
streamVars == <<emitted, lost, late>>
captchaVars ==
  <<listening, everListened, timer, captchaUrls, arrived, hpc, promise,
    settleCalls, bgBox, handleBox, solution, failVisible>>
solverVars ==
  <<spc, sopts, solveCalls, fetches, posts, httpStatus, httpBody, sresult, serr>>
dragVars ==
  <<dpc, di, dsteps, dstart, dend, mouse, events, dpos, eases, dragCalls,
    dfailed, dragReturns>>

cliVars == <<cpc, base64Image, exitCode, cliErr>>

vars == <<loginVars, streamVars, captchaVars, solverVars, dragVars, cliVars>>

\* ------------------------------------------------------------ solveCaptcha

\* A slip in the 'whirl' check: puzzleUrl is not tested.
ValidOptionsNoPuzzleCheck(o) ==
  CASE o.captchaType = "whirl" ->
         /\ TruthyStr(o.backgroundUrl)
         /\ TruthyNum(o.width) /\ TruthyNum(o.height)
    [] o.captchaType = "puzzle" ->
         /\ TruthyStr(o.backgroundUrl) /\ TruthyStr(o.puzzleUrl)
         /\ TruthyNum(o.width) /\ TruthyNum(o.height)
    [] o.captchaType = "3d" ->
         /\ TruthyStr(o.imageBase64)
         /\ TruthyNum(o.width) /\ TruthyNum(o.height)
    [] o.captchaType = "icon" ->
         /\ TruthyStr(o.imageBase64) /\ TruthyStr(o.question)
         /\ TruthyNum(o.width) /\ TruthyNum(o.height)
    [] OTHER -> FALSE

\* The switch's checks: each kind's `if (!a || !b ...) throw`, and the
\* default branch for a kind that is none of the four.
ValidOptions(o) ==
  CASE o.captchaType = "whirl" ->
         /\ TruthyStr(o.backgroundUrl) /\ TruthyStr(o.puzzleUrl)
         /\ TruthyNum(o.width) /\ TruthyNum(o.height)
    [] o.captchaType = "puzzle" ->
         /\ TruthyStr(o.backgroundUrl) /\ TruthyStr(o.puzzleUrl)
         /\ TruthyNum(o.width) /\ TruthyNum(o.height)
    [] o.captchaType = "3d" ->
         /\ TruthyStr(o.imageBase64)
         /\ TruthyNum(o.width) /\ TruthyNum(o.height)
    [] o.captchaType = "icon" ->
         /\ TruthyStr(o.imageBase64) /\ TruthyStr(o.question)
         /\ TruthyNum(o.width) /\ TruthyNum(o.height)
    [] OTHER -> FALSE

SupportedType(t) == t \in {"whirl", "puzzle", "3d", "icon"}

Endpoint(t) ==
  CASE t = "whirl" -> "/whirl"
    [] t = "puzzle" -> "/slide"
    [] t = "3d" -> "/3d"
    [] t = "icon" -> "/icon"
    [] OTHER -> ""

\* The kinds whose payload is built from two fetched images.
FetchesImages(t) == t \in {"whirl", "puzzle"}

\* solveCaptcha(options) up to its first await: the switch's validation,
\* then either the first urlToB64's fetch or, for a kind that fetches no
\* image, the POST.
SolveStart(o) ==
  /\ sopts' = o
  /\ solveCalls' = Append(solveCalls, o)
  /\ IF ~ValidOptions(o)
       THEN /\ spc' = "threw"
            /\ serr' = IF SupportedType(o.captchaType) THEN "validation" ELSE "unsupported"
            /\ UNCHANGED <<fetches, posts>>
       ELSE IF FetchesImages(o.captchaType)
         THEN /\ spc' = "fetchBg"
              /\ fetches' = Append(fetches, o.backgroundUrl.v)
              /\ UNCHANGED <<posts, serr>>
         ELSE /\ spc' = "post"
              /\ posts' = Append(posts, Endpoint(o.captchaType))
              /\ UNCHANGED <<fetches, serr>>
  /\ UNCHANGED <<httpStatus, httpBody, sresult>>

\* urlToB64(backgroundUrl) answers: the fetch threw, the response was not ok
\* or buffer() threw (fetched = FALSE), or the bytes arrived.  On success the
\* second urlToB64's fetch is issued.
SolveFetchBg ==
  /\ spc = "fetchBg"
  /\ \E fetched \in BOOLEAN :
       IF fetched
         THEN /\ spc' = "fetchPz"
              /\ fetches' = Append(fetches, sopts.puzzleUrl.v)
              /\ UNCHANGED serr
         ELSE /\ spc' = "threw"
              /\ serr' = "imageFetch"
              /\ UNCHANGED fetches
  /\ UNCHANGED <<sopts, solveCalls, posts, httpStatus, httpBody, sresult>>
  /\ UNCHANGED <<loginVars, streamVars, captchaVars, dragVars, cliVars>>

\* urlToB64(puzzleUrl) answers; on success the payload is complete and the
\* POST is issued.
SolveFetchPz ==
  /\ spc = "fetchPz"
  /\ \E fetched \in BOOLEAN :
       IF fetched
         THEN /\ spc' = "post"
              /\ posts' = Append(posts, Endpoint(sopts.captchaType))
              /\ UNCHANGED serr
         ELSE /\ spc' = "threw"
              /\ serr' = "imageFetch"
              /\ UNCHANGED posts
  /\ UNCHANGED <<sopts, solveCalls, fetches, httpStatus, httpBody, sresult>>
  /\ UNCHANGED <<loginVars, streamVars, captchaVars, dragVars, cliVars>>

\* fetch(url, POST) answers: it threw (the service is unreachable), or a
\* response arrived, 2xx or not; response.json() is awaited.
SolvePost ==
  /\ spc = "post"
  /\ \E answer \in {"unreachable", "ok", "notOk"} :
       /\ httpStatus' = answer
       /\ IF answer = "unreachable"
            THEN /\ spc' = "threw"
                 /\ serr' = "unreachable"
            ELSE /\ spc' = "json"
                 /\ UNCHANGED serr
  /\ UNCHANGED <<sopts, solveCalls, fetches, posts, httpBody, sresult>>
  /\ UNCHANGED <<loginVars, streamVars, captchaVars, dragVars, cliVars>>

\* A slip in the response handling: an error code other than "0" is thrown
\* on like an error message.
AfterJsonThrowsOnErrorCode(ok, b) ==
  IF b.kind = "null" THEN "typeError"
  ELSE IF ~ok \/ HasErrorMsg(b) \/ (b.kind = "object" /\ b.error # "0")
    THEN (IF HasErrorMsg(b) \/ ok THEN "api" ELSE "text")
    ELSE "return"

\* What the code after `const result = await response.json()` does with the
\* parsed body: "typeError" (reading errorMsg of null), "api" (throw with
\* result.errorMsg), "text" (await response.text(), then throw) or "return".
AfterJson(ok, b) ==
  IF b.kind = "null" THEN "typeError"
  ELSE IF ~ok \/ HasErrorMsg(b)
    THEN (IF HasErrorMsg(b) THEN "api" ELSE "text")
    ELSE "return"

\* response.json() answers: it threw (the body does not parse) or the parsed
\* body arrived.
SolveJson ==
  /\ spc = "json"
  /\ \E b \in Bodies :
       /\ httpBody' = b
       /\ IF b.kind = "unparseable"
            THEN /\ spc' = "threw"
                 /\ serr' = "parse"
                 /\ UNCHANGED sresult
            ELSE CASE AfterJson(httpStatus = "ok", b) = "typeError" ->
                        /\ spc' = "threw"
                        /\ serr' = "typeError"
                        /\ UNCHANGED sresult
                   [] AfterJson(httpStatus = "ok", b) = "api" ->
                        /\ spc' = "threw"
                        /\ serr' = "api"
                        /\ UNCHANGED sresult
                   [] AfterJson(httpStatus = "ok", b) = "text" ->
                        /\ spc' = "text"
                        /\ UNCHANGED <<serr, sresult>>
                   [] OTHER ->
                        /\ spc' = "returned"
                        /\ sresult' = b
                        /\ UNCHANGED serr
  /\ UNCHANGED <<sopts, solveCalls, fetches, posts, httpStatus>>
  /\ UNCHANGED <<loginVars, streamVars, captchaVars, dragVars, cliVars>>

\* response.text() answers (or throws, the body being read already): either
\* way the request fails.
SolveText ==
  /\ spc = "text"
  /\ spc' = "threw"
  /\ serr' = "api"
  /\ UNCHANGED <<sopts, solveCalls, fetches, posts, httpStatus, httpBody, sresult>>
  /\ UNCHANGED <<loginVars, streamVars, captchaVars, dragVars, cliVars>>

SolverStep ==
  \/ SolveFetchBg
  \/ SolveFetchPz
  \/ SolvePost
  \/ SolveJson
  \/ SolveText

\* The caller resumes after solveCaptcha returned or threw: the call's frame
\* is gone; what it sent stays sent.
SolveFrameDropped ==
  /\ spc' = "idle"
  /\ sopts' = NoOptions
  /\ httpStatus' = "none"
  /\ httpBody' = NoBody
  /\ sresult' = NoBody
  /\ serr' = "none"
  /\ UNCHANGED <<solveCalls, fetches, posts>>

\* ----------------------------------------------------------- the promise

Pending == [state |-> "pending", value |-> "none"]
Resolved(v) == [state |-> "resolved", value |-> v]
Rejected(reason) == [state |-> "rejected", value |-> reason]

\* resolve(v) or reject(e): the first call settles the promise, a later one
\* changes nothing.
Settle(to) ==
  /\ promise' = IF promise.state = "pending" THEN to ELSE promise
  /\ settleCalls' = settleCalls + 1

\* ------------------------------------------------------- humanLikeDrag

\* The drag's terminal positions.
DragEnded == dpc \in {"returned", "threw"}

\* humanLikeDrag(page, start, end) up to its first await: the move to start
\* ({steps: 10}) is issued.
DragStart(start, end) ==
  /\ dstart' = start
  /\ dend' = end
  /\ dpc' = "moveToStart"
  /\ dragCalls' = Append(dragCalls, [start |-> start, end |-> end])
  /\ UNCHANGED <<di, dsteps, mouse, events, dpos, eases, dfailed, dragReturns>>

\* What the drag does when the pointer call it awaited throws: the function
\* has no try, catch or finally, so the exception leaves it at once and
\* nothing more is issued.  dfailed keeps which call threw.
DragThrow ==
  /\ dpc' = "threw"
  /\ dfailed' = dpc
  /\ UNCHANGED <<di, dsteps, mouse, events, dpos, eases, dragReturns>>

\* page.mouse.move(startX, startY, {steps: 10}) answers; then mouse.down()
\* is issued.
DragMoveToStart ==
  /\ dpc = "moveToStart"
  /\ \E done \in BOOLEAN :
       IF done
         THEN /\ dpc' = "down"
              /\ events' = Append(events, "moveToStart")
              /\ UNCHANGED <<di, dsteps, mouse, dpos, eases, dfailed, dragReturns>>
         ELSE DragThrow
  /\ UNCHANGED <<dstart, dend, dragCalls>>
  /\ UNCHANGED <<loginVars, streamVars, captchaVars, solverVars, cliVars>>

\* page.mouse.down() answers; then the 200-350 ms hold is awaited.
DragDown ==
  /\ dpc = "down"
  /\ \E done \in BOOLEAN :
       IF done
         THEN /\ dpc' = "hold"
              /\ mouse' = "down"
              /\ events' = Append(events, "down")
              /\ UNCHANGED <<di, dsteps, dpos, eases, dfailed, dragReturns>>
         ELSE DragThrow
  /\ UNCHANGED <<dstart, dend, dragCalls>>
  /\ UNCHANGED <<loginVars, streamVars, captchaVars, solverVars, cliVars>>

\* The hold elapses: steps is drawn, the loop starts at i = 0 and issues its
\* first move.
DragHold ==
  /\ dpc = "hold"
  /\ \E r \in RandomSteps : dsteps' = MinSteps + r
  /\ di' = 0
  /\ \E j \in JitterDraws :
       dpos' = TrajectoryPoint(dstart, dend, 0, dsteps', j)
  /\ eases' = <<EaseNum(0, dsteps')>>
  /\ dpc' = "move"
  /\ UNCHANGED <<dstart, dend, mouse, events, dragCalls, dfailed, dragReturns>>
  /\ UNCHANGED <<loginVars, streamVars, captchaVars, solverVars, cliVars>>

\* A slip in the loop's bound: i < steps.
DragMoveStopsEarly ==
  /\ dpc = "move"
  /\ \E done \in BOOLEAN :
       IF done
         THEN /\ events' = Append(events, "move")
              /\ di' = di + 1
              /\ IF di + 1 < dsteps
                   THEN /\ dpc' = "move"
                        /\ \E j \in JitterDraws :
                             dpos' = TrajectoryPoint(dstart, dend, di + 1, dsteps, j)
                        /\ eases' = Append(eases, EaseNum(di + 1, dsteps))
                   ELSE /\ dpc' = "finalHold"
                        /\ UNCHANGED <<dpos, eases>>
              /\ UNCHANGED <<dsteps, mouse, dfailed, dragReturns>>
         ELSE DragThrow
  /\ UNCHANGED <<dstart, dend, dragCalls>>
  /\ UNCHANGED <<loginVars, streamVars, captchaVars, solverVars, cliVars>>

\* The loop's page.mouse.move(randomX, randomY) answers and the 5-15 ms
\* sleep that follows it elapses: i++, and while i <= steps the next point
\* is computed and its move issued; after the loop the 250-450 ms hold is
\* awaited.
DragMove ==
  /\ dpc = "move"
  /\ \E done \in BOOLEAN :
       IF done
         THEN /\ events' = Append(events, "move")
              /\ di' = di + 1
              /\ IF di + 1 <= dsteps
                   THEN /\ dpc' = "move"
                        /\ \E j \in JitterDraws :
                             dpos' = TrajectoryPoint(dstart, dend, di + 1, dsteps, j)
                        /\ eases' = Append(eases, EaseNum(di + 1, dsteps))
                   ELSE /\ dpc' = "finalHold"
                        /\ UNCHANGED <<dpos, eases>>
              /\ UNCHANGED <<dsteps, mouse, dfailed, dragReturns>>
         ELSE DragThrow
  /\ UNCHANGED <<dstart, dend, dragCalls>>
  /\ UNCHANGED <<loginVars, streamVars, captchaVars, solverVars, cliVars>>

\* The final hold elapses: page.mouse.up() is issued.
DragFinalHold ==
  /\ dpc = "finalHold"
  /\ dpc' = "up"
  /\ UNCHANGED <<di, dsteps, dstart, dend, mouse, events, dpos, eases,
                 dragCalls, dfailed, dragReturns>>
  /\ UNCHANGED <<loginVars, streamVars, captchaVars, solverVars, cliVars>>

\* page.mouse.up() answers and the drag returns.
DragUp ==
  /\ dpc = "up"
  /\ \E done \in BOOLEAN :
       IF done
         THEN /\ dpc' = "returned"
              /\ mouse' = "up"
              /\ events' = Append(events, "up")
              /\ dragReturns' = dragReturns + 1
              /\ UNCHANGED <<di, dsteps, dpos, eases, dfailed>>
         ELSE DragThrow
  /\ UNCHANGED <<dstart, dend, dragCalls>>
  /\ UNCHANGED <<loginVars, streamVars, captchaVars, solverVars, cliVars>>

DragStep ==
  \/ DragMoveToStart
  \/ DragDown
  \/ DragHold
  \/ DragMove
  \/ DragFinalHold
  \/ DragUp

\* The caller resumes after the drag returned or threw: the call's frame
\* (its locals and its event log) is gone; the pointer stays as it is.
DragFrameDropped ==
  /\ dpc' = "idle"
  /\ di' = 0
  /\ dsteps' = 0
  /\ dstart' = NoPoint
  /\ dend' = NoPoint
  /\ events' = <<>>
  /\ dpos' = NoPos
  /\ eases' = <<>>
  /\ UNCHANGED <<mouse, dragCalls, dfailed, dragReturns>>

\* ----------------------------------------------------- handleSlideCaptcha

\* The listener's filter on a response's URL.
Matches(url) == Includes(url, HostPrefix)

\* captchaUrls.length === 2: the listener removes itself and starts solving.
PairComplete(buf) == Len(buf) = 2

\* A slip in the pairing: the background is taken from the second entry.
BackgroundOfSecond(buf) == buf[2]

\* The image references the listener hands to the solver.
BackgroundOf(buf) == buf[1]
PuzzleOf(buf) == buf[2]

\* viewportWidth < 640 ? 288 : 348
CaptchaWidth(viewportWidth) ==
  IF viewportWidth < NarrowViewport THEN NarrowWidth ELSE WideWidth

\* The options object of the listener's solveCaptcha call.
WhirlOptions(buf, viewportWidth) ==
  [ captchaType |-> "whirl",
    backgroundUrl |-> Given(BackgroundOf(buf)),
    puzzleUrl |-> Given(PuzzleOf(buf)),
    imageBase64 |-> Absent(<<>>),
    width |-> Given(CaptchaWidth(viewportWidth)),
    height |-> Given(CaptchaHeight),
    question |-> Absent(<<>>) ]

\* A slip in the acceptance test: the x offset is not tested.
AcceptedIgnoringX(sol) ==
  /\ sol.kind = "object"
  /\ "error" \in sol.keys /\ sol.error = "0"

\* solution && solution.error === "0" && typeof solution.x !== 'undefined'
Accepted(sol) ==
  /\ sol.kind = "object"
  /\ "error" \in sol.keys /\ sol.error = "0"
  /\ "x" \in sol.keys

\* startX, startY: the centre of the handle's box.
DragStartPoint(hb) == Point(hb.x + hb.width \div 2, hb.y + hb.height \div 2)

\* A slip in the target: the offset is added to the handle's x.
DragEndPointFromHandle(bb, hb, sol) == Point(hb.x + sol.x, DragStartPoint(hb).y)

\* targetX = bgBox.x + solution.x, at the start's ordinate.
DragEndPoint(bb, hb, sol) == Point(bb.x + sol.x, DragStartPoint(hb).y)

\* new Promise(executor): the buffer is created, the listener installed and
\* the 25 s timer armed, all in the executor's synchronous run.
ArmObserver ==
  /\ captchaUrls' = <<>>
  /\ listening' = TRUE
  /\ everListened' = TRUE
  /\ timer' = "armed"
  /\ UNCHANGED <<arrived, hpc, promise, settleCalls, bgBox, handleBox, solution,
                 failVisible>>

\* A slip in the listener: it does not remove itself at the second URL.
ListenerRunKeepsListening(url) ==
  IF Matches(url)
    THEN /\ captchaUrls' = Append(captchaUrls, url)
         /\ arrived' = Append(arrived, url)
         /\ IF PairComplete(Append(captchaUrls, url))
              THEN /\ hpc' = "bgBox"
                   /\ UNCHANGED listening
              ELSE UNCHANGED <<listening, hpc>>
    ELSE UNCHANGED <<captchaUrls, arrived, listening, hpc>>

\* responseListener(response) up to its first await.
ListenerRun(url) ==
  IF Matches(url)
    THEN /\ captchaUrls' = Append(captchaUrls, url)
         /\ arrived' = Append(arrived, url)
         /\ IF PairComplete(Append(captchaUrls, url))
              THEN /\ listening' = FALSE
                   /\ hpc' = "bgBox"
              ELSE UNCHANGED <<listening, hpc>>
    ELSE UNCHANGED <<captchaUrls, arrived, listening, hpc>>

\* The page emits a response event.  With the listener installed it runs;
\* without one the event is lost.
Response ==
  /\ lpc \notin {"finally", "qrFinally", "done"}
  /\ emitted < MaxResponses
  /\ emitted' = emitted + 1
  /\ \E url \in Urls :
       IF listening
         THEN /\ ListenerRun(url)
              /\ UNCHANGED <<lost, late>>
         ELSE /\ lost' = IF clicked /\ ~everListened /\ Matches(url)
                          THEN lost + 1 ELSE lost
              /\ late' = IF everListened /\ Matches(url) THEN late + 1 ELSE late
              /\ UNCHANGED <<captchaUrls, arrived, listening, hpc>>
  /\ UNCHANGED <<everListened, timer, promise, settleCalls, bgBox, handleBox,
                 solution, failVisible>>
  /\ UNCHANGED <<loginVars, solverVars, dragVars, cliVars>>

\* A slip in the timer's callback: resolve(false) is called whatever the
\* buffer holds.
TimerFireAlwaysResolves ==
  /\ timer = "armed"
  /\ timer' = "fired"
  /\ listening' = FALSE
  /\ Settle(Resolved("false"))
  /\ UNCHANGED <<everListened, captchaUrls, arrived, hpc, bgBox, handleBox,
                 solution, failVisible>>
  /\ UNCHANGED <<loginVars, streamVars, solverVars, dragVars, cliVars>>

\* A slip in the timer's callback: the listener is left installed.
TimerFireKeepsListener ==
  /\ timer = "armed"
  /\ timer' = "fired"
  /\ IF Len(captchaUrls) < 2
       THEN Settle(Resolved("false"))
       ELSE UNCHANGED <<promise, settleCalls>>
  /\ UNCHANGED <<listening, everListened, captchaUrls, arrived, hpc, bgBox,
                 handleBox, solution, failVisible>>
  /\ UNCHANGED <<loginVars, streamVars, solverVars, dragVars, cliVars>>

\* The 25 s timer's callback.
TimerFire ==
  /\ timer = "armed"
  /\ timer' = "fired"
  /\ listening' = FALSE
  /\ IF Len(captchaUrls) < 2
       THEN Settle(Resolved("false"))
       ELSE UNCHANGED <<promise, settleCalls>>
  /\ UNCHANGED <<everListened, captchaUrls, arrived, hpc, bgBox, handleBox,
                 solution, failVisible>>
  /\ UNCHANGED <<loginVars, streamVars, solverVars, dragVars, cliVars>>

\* A slip in the listener's error handling: the failure leaves the listener
\* without reaching reject.
ListenerRejectEscapes(reason) ==
  /\ hpc' = "end"
  /\ UNCHANGED <<promise, settleCalls>>

\* The listener's catch (err) { reject(err) } and its own reject calls.
ListenerReject(reason) ==
  /\ Settle(Rejected(reason))
  /\ hpc' = "end"

\* A slip in the listener: the solver is called before the background's box
\* is tested.
ListenerBgBoxSolvesFirst ==
  /\ hpc = "bgBox"
  /\ \/ /\ ListenerReject("BackgroundBoxThrew")
        /\ UNCHANGED <<bgBox, solverVars>>
     \/ \E vw \in ViewportWidths :
          /\ bgBox' = NullBox
          /\ SolveStart(WhirlOptions(captchaUrls, vw))
          /\ ListenerReject("NoBackgroundBox")
     \/ \E bb \in BgBoxes, vw \in ViewportWidths :
          /\ bgBox' = bb
          /\ SolveStart(WhirlOptions(captchaUrls, vw))
          /\ hpc' = "solve"
          /\ UNCHANGED <<promise, settleCalls>>
  /\ UNCHANGED <<listening, everListened, timer, captchaUrls, arrived, handleBox,
                 solution, failVisible>>
  /\ UNCHANGED <<loginVars, streamVars, dragVars, cliVars>>

\* bgImageElement.boundingBox() answers: it threw, it answered null, or a
\* box.  With a box the viewport is read and solveCaptcha is called.
ListenerBgBox ==
  /\ hpc = "bgBox"
  /\ \/ /\ ListenerReject("BackgroundBoxThrew")
        /\ UNCHANGED <<bgBox, solverVars>>
     \/ /\ bgBox' = NullBox
        /\ ListenerReject("NoBackgroundBox")
        /\ UNCHANGED solverVars
     \/ \E bb \in BgBoxes, vw \in ViewportWidths :
          /\ bgBox' = bb
          /\ SolveStart(WhirlOptions(captchaUrls, vw))
          /\ hpc' = "solve"
          /\ UNCHANGED <<promise, settleCalls>>
  /\ UNCHANGED <<listening, everListened, timer, captchaUrls, arrived, handleBox,
                 solution, failVisible>>
  /\ UNCHANGED <<loginVars, streamVars, dragVars, cliVars>>

\* A slip in the listener: a solver call that threw is made once more.
ListenerSolvedRetries ==
  /\ hpc = "solve"
  /\ spc \in {"returned", "threw"}
  /\ IF spc = "threw" /\ Len(solveCalls) < 2
       THEN /\ SolveStart(sopts)
            /\ UNCHANGED <<hpc, promise, settleCalls, solution>>
       ELSE /\ SolveFrameDropped
            /\ IF spc = "threw"
                 THEN /\ ListenerReject(serr)
                      /\ UNCHANGED solution
                 ELSE /\ solution' = sresult
                      /\ IF Accepted(sresult)
                           THEN /\ hpc' = "handleBox"
                                /\ UNCHANGED <<promise, settleCalls>>
                           ELSE ListenerReject("SolverRejected")
  /\ UNCHANGED <<listening, everListened, timer, captchaUrls, arrived, bgBox,
                 handleBox, failVisible>>
  /\ UNCHANGED <<loginVars, streamVars, dragVars, cliVars>>

\* solveCaptcha answers.  What it threw is rejected with; a result that is
\* not accepted is rejected with; an accepted one has the handle's box read.
ListenerSolved ==
  /\ hpc = "solve"
  /\ spc \in {"returned", "threw"}
  /\ SolveFrameDropped
  /\ IF spc = "threw"
       THEN /\ ListenerReject(serr)
            /\ UNCHANGED solution
       ELSE /\ solution' = sresult
            /\ IF Accepted(sresult)
                 THEN /\ hpc' = "handleBox"
                      /\ UNCHANGED <<promise, settleCalls>>
                 ELSE ListenerReject("SolverRejected")
  /\ UNCHANGED <<listening, everListened, timer, captchaUrls, arrived, bgBox,
                 handleBox, failVisible>>
  /\ UNCHANGED <<loginVars, streamVars, dragVars, cliVars>>

\* sliderHandle.boundingBox() answers: it threw, it answered null, or a box.
\* With a box the drag is called.
ListenerHandleBox ==
  /\ hpc = "handleBox"
  /\ \/ /\ ListenerReject("HandleBoxThrew")
        /\ UNCHANGED <<handleBox, dragVars>>
     \/ /\ handleBox' = NullBox
        /\ ListenerReject("NoHandleBox")
        /\ UNCHANGED dragVars
     \/ \E hb \in HandleBoxes :
          /\ handleBox' = hb
          /\ DragStart(DragStartPoint(hb), DragEndPoint(bgBox, hb, solution))
          /\ hpc' = "drag"
          /\ UNCHANGED <<promise, settleCalls>>
  /\ UNCHANGED <<listening, everListened, timer, captchaUrls, arrived, bgBox,
                 solution, failVisible>>
  /\ UNCHANGED <<loginVars, streamVars, solverVars, cliVars>>

\* humanLikeDrag answers: it threw, or it returned and the 3 s settle wait is
\* awaited.
ListenerDragDone ==
  /\ hpc = "drag"
  /\ DragEnded
  /\ DragFrameDropped
  /\ IF dpc = "threw"
       THEN ListenerReject("DriverError")
       ELSE /\ hpc' = "settle"
            /\ UNCHANGED <<promise, settleCalls>>
  /\ UNCHANGED <<listening, everListened, timer, captchaUrls, arrived, bgBox,
                 handleBox, solution, failVisible>>
  /\ UNCHANGED <<loginVars, streamVars, solverVars, cliVars>>

\* The settle wait elapses: errorLocator.isVisible() is issued.
ListenerSettle ==
  /\ hpc = "settle"
  /\ hpc' = "verify"
  /\ UNCHANGED <<listening, everListened, timer, captchaUrls, arrived, promise,
                 settleCalls, bgBox, handleBox, solution, failVisible>>
  /\ UNCHANGED <<loginVars, streamVars, solverVars, dragVars, cliVars>>

\* A slip in the verification: the indicator's answer is not used.
VerdictIgnoringIndicator(visible) == Resolved("true")

\* What the listener does with isVisible()'s answer.
Verdict(visible) ==
  IF visible THEN Rejected("VerificationFailed") ELSE Resolved("true")

\* isVisible() answers: it threw, or it answered.
ListenerVerify ==
  /\ hpc = "verify"
  /\ \/ /\ ListenerReject("VisibleThrew")
        /\ UNCHANGED failVisible
     \/ \E visible \in BOOLEAN :
          /\ failVisible' = IF visible THEN "yes" ELSE "no"
          /\ Settle(Verdict(visible))
          /\ hpc' = "end"
  /\ UNCHANGED <<listening, everListened, timer, captchaUrls, arrived, bgBox,
                 handleBox, solution>>
  /\ UNCHANGED <<loginVars, streamVars, solverVars, dragVars, cliVars>>

\* --------------------------------------------------- loginWithCredentials

\* catch (error) { console.error(`LOGIN_ERROR: ...`) }, then the finally
\* block is entered.
LoginCatch ==
  /\ out' = out \cup {"LOGIN_ERROR"}
  /\ lpc' = "finally"

\* The try block up to the click: warm-up, navigation, typing.  Any of its
\* awaits may throw; otherwise the login button's click() is issued.
LoginPrepare ==
  /\ lpc = "prepare"
  /\ \/ /\ LoginCatch
        /\ UNCHANGED clicked
     \/ /\ lpc' = "click"
        /\ clicked' = TRUE
        /\ UNCHANGED out
  /\ UNCHANGED <<cookieFile, atForYou, loginErrorSeen>>
  /\ UNCHANGED <<streamVars, captchaVars, solverVars, dragVars, cliVars>>

\* click() answers: it threw, or it returned and handleSlideCaptcha(page) is
\* called and its promise awaited.
LoginClicked ==
  /\ lpc = "click"
  /\ \/ /\ LoginCatch
        /\ UNCHANGED captchaVars
     \/ /\ lpc' = "captcha"
        /\ ArmObserver
        /\ UNCHANGED out
  /\ UNCHANGED <<clicked, cookieFile, atForYou, loginErrorSeen>>
  /\ UNCHANGED <<streamVars, solverVars, dragVars, cliVars>>

\* A slip in the login flow: anything but a solved captcha fails the login.
LoginCaptchaDoneFailsUnsolved ==
  /\ lpc = "captcha"
  /\ promise.state # "pending"
  /\ IF promise = Resolved("true")
       THEN /\ lpc' = "postWait"
            /\ UNCHANGED out
       ELSE LoginCatch
  /\ UNCHANGED <<clicked, cookieFile, atForYou, loginErrorSeen>>
  /\ UNCHANGED <<streamVars, captchaVars, solverVars, dragVars, cliVars>>

\* The attempt's promise is settled: resolved (true or false) or rejected,
\* which the inner catch logs.  Either way the 5 s wait is awaited.
LoginCaptchaDone ==
  /\ lpc = "captcha"
  /\ promise.state # "pending"
  /\ lpc' = "postWait"
  /\ UNCHANGED <<clicked, out, cookieFile, atForYou, loginErrorSeen>>
  /\ UNCHANGED <<streamVars, captchaVars, solverVars, dragVars, cliVars>>

\* The 5 s wait elapses: the error container's isVisible() is issued.
LoginPostWait ==
  /\ lpc = "postWait"
  /\ lpc' = "errorCheck"
  /\ UNCHANGED <<clicked, out, cookieFile, atForYou, loginErrorSeen>>
  /\ UNCHANGED <<streamVars, captchaVars, solverVars, dragVars, cliVars>>

\* A slip in the login flow: a visible error container does not stop it.
LoginErrorCheckIgnoresContainer ==
  /\ lpc = "errorCheck"
  /\ \/ /\ LoginCatch
        /\ UNCHANGED loginErrorSeen
     \/ /\ loginErrorSeen' = TRUE
        /\ lpc' = "waitUrl"
        /\ UNCHANGED out
     \/ /\ lpc' = "waitUrl"
        /\ UNCHANGED <<out, loginErrorSeen>>
  /\ UNCHANGED <<clicked, cookieFile, atForYou>>
  /\ UNCHANGED <<streamVars, captchaVars, solverVars, dragVars, cliVars>>

\* isVisible() answers: it threw; the container is visible and its text is
\* read; or it is not and waitForURL(foryou) is awaited.
LoginErrorCheck ==
  /\ lpc = "errorCheck"
  /\ \/ /\ LoginCatch
        /\ UNCHANGED loginErrorSeen
     \/ /\ loginErrorSeen' = TRUE
        /\ lpc' = "errorText"
        /\ UNCHANGED out
     \/ /\ lpc' = "waitUrl"
        /\ UNCHANGED <<out, loginErrorSeen>>
  /\ UNCHANGED <<clicked, cookieFile, atForYou>>
  /\ UNCHANGED <<streamVars, captchaVars, solverVars, dragVars, cliVars>>

\* textContent() answers or throws: an error is thrown either way.
LoginErrorText ==
  /\ lpc = "errorText"
  /\ LoginCatch
  /\ UNCHANGED <<clicked, cookieFile, atForYou, loginErrorSeen>>
  /\ UNCHANGED <<streamVars, captchaVars, solverVars, dragVars, cliVars>>

\* waitForURL answers: it threw (60 s passed), or the page is at for-you and
\* context.cookies() is awaited.
LoginWaitUrl ==
  /\ lpc = "waitUrl"
  /\ \/ /\ LoginCatch
        /\ UNCHANGED atForYou
     \/ /\ atForYou' = TRUE
        /\ lpc' = "cookies"
        /\ UNCHANGED out
  /\ UNCHANGED <<clicked, cookieFile, loginErrorSeen>>
  /\ UNCHANGED <<streamVars, captchaVars, solverVars, dragVars, cliVars>>

\* cookies() answers: it or writeFileSync threw, or the file is written and
\* LOGIN_SUCCESS printed.
LoginCookies ==
  /\ lpc = "cookies"
  /\ \/ /\ LoginCatch
        /\ UNCHANGED cookieFile
     \/ /\ cookieFile' = TRUE
        /\ out' = out \cup {"LOGIN_SUCCESS"}
        /\ lpc' = "finally"
  /\ UNCHANGED <<clicked, atForYou, loginErrorSeen>>
  /\ UNCHANGED <<streamVars, captchaVars, solverVars, dragVars, cliVars>>

\* finally: the authenticator is removed and the browser closed.
LoginFinally ==
  /\ lpc = "finally"
  /\ lpc' = "done"
  /\ UNCHANGED <<clicked, out, cookieFile, atForYou, loginErrorSeen>>
  /\ UNCHANGED <<streamVars, captchaVars, solverVars, dragVars, cliVars>>

\* ------------------------------------------------------ solve_captcha_cli

\* process.argv[2]: absent, or a string (the empty one included) over two
\* symbols.
ImageSymbols == { "i", "j" }
ImageStrings == UNION { [1..n -> ImageSymbols] : n \in 0..MaxImageLen }
ImageArgs == { Absent(<<>>) } \cup { Given(img) : img \in ImageStrings }

\* A wrapper that hands the solver a width and a height as well.
CliOptionsWithSize(img) ==
  [ captchaType |-> "3d",
    backgroundUrl |-> Absent(<<>>),
    puzzleUrl |-> Absent(<<>>),
    imageBase64 |-> Given(img),
    width |-> Given(WideWidth),
    height |-> Given(CaptchaHeight),
    question |-> Absent(<<>>) ]

\* { captchaType: '3d', imageBase64: base64Image }
CliOptions(img) ==
  [ captchaType |-> "3d",
    backgroundUrl |-> Absent(<<>>),
    puzzleUrl |-> Absent(<<>>),
    imageBase64 |-> Given(img),
    width |-> Absent(0),
    height |-> Absent(0),
    question |-> Absent(<<>>) ]

\* The wrapper's main function up to its first await: without an image it
\* prints 'No image provided' and exits with status 1; with one it calls
\* solveCaptcha.
CliMain ==
  /\ cpc = "main"
  /\ IF ~TruthyStr(base64Image)
       THEN /\ cliErr' = "NoImage"
            /\ exitCode' = 1
            /\ cpc' = "exited"
            /\ UNCHANGED solverVars
       ELSE /\ SolveStart(CliOptions(base64Image.v))
            /\ cpc' = "solving"
            /\ UNCHANGED <<exitCode, cliErr>>
  /\ UNCHANGED base64Image
  /\ UNCHANGED <<loginVars, streamVars, captchaVars, dragVars>>

\* solveCaptcha answers: what it threw is printed and the process exits with
\* status 1; what it returned is printed and the process ends with status 0.
CliSolved ==
  /\ cpc = "solving"
  /\ spc \in {"returned", "threw"}
  /\ IF spc = "threw"
       THEN /\ cliErr' = serr
            /\ exitCode' = 1
       ELSE /\ exitCode' = 0
            /\ UNCHANGED cliErr
  /\ cpc' = "exited"
  /\ UNCHANGED base64Image
  /\ UNCHANGED <<loginVars, streamVars, captchaVars, solverVars, dragVars>>

\* ---------------------------------------------------- loginAndSaveCookies

\* catch (error) { console.error(`LOGIN_ERROR: ...`) } of the QR flow, then
\* its finally block is entered.
QrCatch ==
  /\ out' = out \cup {"LOGIN_ERROR"}
  /\ lpc' = "qrFinally"

\* The warm-up (goto explore, waits, wheel) answers: one of its awaits threw,
\* or the QR login page is opened and its canvas waited for.
QrWarmUp ==
  /\ lpc = "qrWarmUp"
  /\ \/ QrCatch
     \/ /\ lpc' = "qrCanvas"
        /\ UNCHANGED out
  /\ UNCHANGED <<clicked, cookieFile, atForYou, loginErrorSeen>>
  /\ UNCHANGED <<streamVars, captchaVars, solverVars, dragVars, cliVars>>

\* goto and waitForSelector('canvas') answer: one threw (30 s passed), or the
\* canvas is there and, a second later, its screenshot is taken.
QrCanvas ==
  /\ lpc = "qrCanvas"
  /\ \/ QrCatch
     \/ /\ lpc' = "qrShot"
        /\ UNCHANGED out
  /\ UNCHANGED <<clicked, cookieFile, atForYou, loginErrorSeen>>
  /\ UNCHANGED <<streamVars, captchaVars, solverVars, dragVars, cliVars>>

\* screenshot() answers: it threw, or QR_CODE_DATA is printed and
\* waitForURL(foryou) awaited.
QrShot ==
  /\ lpc = "qrShot"
  /\ \/ QrCatch
     \/ /\ out' = out \cup {"QR_CODE_DATA"}
        /\ lpc' = "qrWaitUrl"
  /\ UNCHANGED <<clicked, cookieFile, atForYou, loginErrorSeen>>
  /\ UNCHANGED <<streamVars, captchaVars, solverVars, dragVars, cliVars>>

\* waitForURL answers: it threw (120 s passed), or the page is at for-you and
\* context.cookies() is awaited.
QrWaitUrl ==
  /\ lpc = "qrWaitUrl"
  /\ \/ /\ QrCatch
        /\ UNCHANGED atForYou
     \/ /\ atForYou' = TRUE
        /\ lpc' = "qrCookies"
        /\ UNCHANGED out
  /\ UNCHANGED <<clicked, cookieFile, loginErrorSeen>>
  /\ UNCHANGED <<streamVars, captchaVars, solverVars, dragVars, cliVars>>

\* cookies() answers: it or writeFileSync threw, or the file is written and
\* LOGIN_SUCCESS printed.
QrCookies ==
  /\ lpc = "qrCookies"
  /\ \/ /\ QrCatch
        /\ UNCHANGED cookieFile
     \/ /\ cookieFile' = TRUE
        /\ out' = out \cup {"LOGIN_SUCCESS"}
        /\ lpc' = "qrFinally"
  /\ UNCHANGED <<clicked, atForYou, loginErrorSeen>>
  /\ UNCHANGED <<streamVars, captchaVars, solverVars, dragVars, cliVars>>

\* finally: the browser is closed.
QrFinally ==
  /\ lpc = "qrFinally"
  /\ lpc' = "done"
  /\ UNCHANGED <<clicked, out, cookieFile, atForYou, loginErrorSeen>>
  /\ UNCHANGED <<streamVars, captchaVars, solverVars, dragVars, cliVars>>

QrStep ==
  \/ QrWarmUp
  \/ QrCanvas
  \/ QrShot
  \/ QrWaitUrl
  \/ QrCookies
  \/ QrFinally

\* ------------------------------------------------------ specifications

InitLogin ==
  /\ clicked = FALSE
  /\ out = {}
  /\ cookieFile = FALSE
  /\ atForYou = FALSE
  /\ loginErrorSeen = FALSE

InitCaptcha ==
  /\ emitted = 0
  /\ lost = 0
  /\ late = 0
  /\ listening = FALSE
  /\ everListened = FALSE
  /\ timer = "none"
  /\ captchaUrls = <<>>
  /\ arrived = <<>>
  /\ hpc = "idle"
  /\ promise = Pending
  /\ settleCalls = 0
  /\ bgBox = NullBox
  /\ handleBox = NullBox
  /\ solution = NoBody
  /\ failVisible = "unchecked"

InitSolver ==
  /\ spc = "idle"
  /\ sopts = NoOptions
  /\ solveCalls = <<>>
  /\ fetches = <<>>
  /\ posts = <<>>
  /\ httpStatus = "none"
  /\ httpBody = NoBody
  /\ sresult = NoBody
  /\ serr = "none"

\* The wrapper is not running.
InitCli ==
  /\ cpc = "idle"
  /\ base64Image = Absent(<<>>)
  /\ exitCode = -1
  /\ cliErr = "none"

InitDrag ==
  /\ dpc = "idle"
  /\ di = 0
  /\ dsteps = 0
  /\ dstart = NoPoint
  /\ dend = NoPoint
  /\ mouse = "up"
  /\ events = <<>>
  /\ dpos = NoPos
  /\ eases = <<>>
  /\ dragCalls = <<>>
  /\ dfailed = "none"
  /\ dragReturns = 0

\* The credential login program (login_automated.js) from the start of
\* loginWithCredentials' try block.
Init ==
  /\ lpc = "prepare"
  /\ InitLogin
  /\ InitCaptcha
  /\ InitSolver
  /\ InitDrag
  /\ InitCli

Next ==
  \/ LoginPrepare
  \/ LoginClicked
  \/ LoginCaptchaDone
  \/ LoginPostWait
  \/ LoginErrorCheck
  \/ LoginErrorText
  \/ LoginWaitUrl
  \/ LoginCookies
  \/ LoginFinally
  \/ Response
  \/ TimerFire
  \/ ListenerBgBox
  \/ ListenerSolved
  \/ ListenerHandleBox
  \/ ListenerDragDone
  \/ ListenerSettle
  \/ ListenerVerify
  \/ SolverStep
  \/ DragStep

Spec == Init /\ [][Next]_vars

\* solveCaptcha as captcha_solver.js exports it: a caller hands it any
\* options object.
ApiCall ==
  /\ lpc = "api"
  /\ spc = "idle"
  /\ \E o \in Options : SolveStart(o)
  /\ UNCHANGED <<loginVars, streamVars, captchaVars, dragVars, cliVars>>

InitSolverOnly ==
  /\ lpc = "api"
  /\ InitLogin
  /\ InitCaptcha
  /\ InitSolver
  /\ InitDrag
  /\ InitCli

NextSolver ==
  \/ ApiCall
  \/ SolverStep

SpecSolver == InitSolverOnly /\ [][NextSolver]_vars

\* humanLikeDrag on its own: called once with any start and end.
DragPoints == { Point(520, 720), Point(442, 720), Point(100, 300) }

DragCall ==
  /\ lpc = "pointer"
  /\ dpc = "idle"
  /\ \E start \in DragPoints, end \in DragPoints : DragStart(start, end)
  /\ UNCHANGED <<loginVars, streamVars, captchaVars, solverVars, cliVars>>

InitDragOnly ==
  /\ lpc = "pointer"
  /\ InitLogin
  /\ InitCaptcha
  /\ InitSolver
  /\ InitDrag
  /\ InitCli

NextDrag ==
  \/ DragCall
  \/ DragStep

SpecDrag == InitDragOnly /\ [][NextDrag]_vars

\* Either login program: the QR flow (login.js) from the start of
\* loginAndSaveCookies' try block, or the credential flow.
InitEither ==
  /\ lpc \in {"qrWarmUp", "prepare"}
  /\ InitLogin
  /\ InitCaptcha
  /\ InitSolver
  /\ InitDrag
  /\ InitCli

NextEither ==
  \/ QrStep
  \/ Next

SpecEither == InitEither /\ [][NextEither]_vars

\* The command-line wrapper (solve_captcha_cli.js), started with any image
\* argument.  None of solveCaptcha's later steps is reached from it.
InitCliOnly ==
  /\ lpc = "cli"
  /\ InitLogin
  /\ InitCaptcha
  /\ InitSolver
  /\ InitDrag
  /\ cpc = "main"
  /\ base64Image \in ImageArgs
  /\ exitCode = -1
  /\ cliErr = "none"

NextCli ==
  \/ CliMain
  \/ CliSolved

SpecCli == InitCliOnly /\ [][NextCli]_vars

\* ------------------------------------------------------------ properties

\* C1: the response listener is subscribed strictly before the login button
\* is clicked, so that no accepted response emitted after the click finds no
\* listener installed.
C1_SubscribedBeforeClick ==
  /\ clicked => everListened
  /\ lost = 0

\* C2: once two accepted responses u1, u2 have arrived the solving body has
\* started, and every call of the solver carries background = u1 and
\* overlay = u2, whatever responses follow.
C2_PairIsFirstTwo ==
  /\ Len(arrived) >= 2 => hpc # "idle"
  /\ \A k \in 1..Len(solveCalls) :
       /\ Len(arrived) >= 2
       /\ solveCalls[k].backgroundUrl = Given(arrived[1])
       /\ solveCalls[k].puzzleUrl = Given(arrived[2])

\* A solver call made with two different images, and a further accepted
\* response emitted afterwards.
C2_Witness ==
  /\ Len(solveCalls) = 1
  /\ arrived[1] # arrived[2]
  /\ late > 0

\* C3: with fewer than two accepted URLs the promise is resolved with false
\* when the timer fires and stays pending until then; false is never the
\* outcome before the timer fires; the timer's firing removes the listener.
C3_NoPairResolvesAtTimer ==
  /\ promise = Resolved("false") => timer = "fired"
  /\ (Len(arrived) < 2 /\ timer # "fired") => promise = Pending
  /\ (Len(arrived) < 2 /\ timer = "fired") => promise = Resolved("false")
  /\ timer = "fired" => ~listening

\* The timer fired with one accepted URL in the buffer.
C3_Witness ==
  /\ timer = "fired"
  /\ Len(arrived) = 1
  /\ promise = Resolved("false")

\* The claim's own reading of a non-solution: empty, error code other than
\* "0", or no x offset.
C4_NonSolution(sol) ==
  \/ sol.kind # "object"
  \/ "error" \notin sol.keys
  \/ sol.error # "0"
  \/ "x" \notin sol.keys

\* C4: when the solver's result is a non-solution the drag is never called,
\* no pointer event is issued, and the attempt is rejected as
\* solver-rejected, not resolved.
C4_NonSolutionNeverDrags ==
  (solution # NoBody /\ C4_NonSolution(solution)) =>
    /\ dragCalls = <<>>
    /\ events = <<>>
    /\ mouse = "up"
    /\ dpc = "idle"
    /\ promise = Rejected("SolverRejected")

\* The solver answered error "0" without an x offset.
C4_Witness ==
  /\ solution.kind = "object"
  /\ solution.error = "0"
  /\ "x" \notin solution.keys
  /\ hpc = "end"

\* C5: the drag leaves the pointer released on every exit path, also when a
\* pointer call fails after the press.
C5_ReleasedOnEveryExit ==
  dpc \in {"idle", "returned", "threw"} => mouse = "up"

\* The claim's own reading of a request that lacks a field its kind
\* requires, or that names an unsupported kind.
C6_LacksRequired(o) ==
  CASE o.captchaType \in {"whirl", "puzzle"} ->
         ~o.backgroundUrl.def \/ ~o.puzzleUrl.def \/ ~o.width.def \/ ~o.height.def
    [] o.captchaType = "3d" ->
         ~o.imageBase64.def \/ ~o.width.def \/ ~o.height.def
    [] o.captchaType = "icon" ->
         ~o.imageBase64.def \/ ~o.question.def \/ ~o.width.def \/ ~o.height.def
    [] OTHER -> TRUE

\* C6: a request that lacks a kind-required field, or names an unsupported
\* kind, fails before any network call: no image is fetched and nothing is
\* posted.
C6_ValidationBeforeNetwork ==
  \A k \in 1..Len(solveCalls) :
    C6_LacksRequired(solveCalls[k]) =>
      /\ spc = "threw"
      /\ serr \in {"validation", "unsupported"}
      /\ fetches = <<>>
      /\ posts = <<>>

\* A 'whirl' request with a background and no puzzle image has failed.
C6_Witness ==
  /\ Len(solveCalls) = 1
  /\ solveCalls[1].captchaType = "whirl"
  /\ TruthyStr(solveCalls[1].backgroundUrl)
  /\ ~solveCalls[1].puzzleUrl.def
  /\ spc = "threw"

\* The claim's four causes of failure, read from what the service answered.
C7_ServiceFailed ==
  \/ httpStatus = "unreachable"
  \/ httpStatus = "notOk"
  \/ httpBody.kind = "unparseable"
  \/ ("errorMsg" \in httpBody.keys /\ httpBody.errorMsg # "")

\* C7: once the request is posted, solveCaptcha throws exactly when the
\* service is unreachable, answers non-2xx, answers a body that does not
\* parse, or answers an explicit error message; any other answer is returned
\* unchanged.
C7_ThrowsExactlyOnServiceFailure ==
  (posts # <<>> /\ spc \in {"returned", "threw"}) =>
    /\ spc = "threw" <=> C7_ServiceFailed
    /\ spc = "returned" => sresult = httpBody

\* C7, amended: once the request is posted, solveCaptcha throws exactly when
\* the service is unreachable, answers non-2xx, answers a body that does not
\* parse, answers the JSON value null, or answers an explicit error message;
\* any other answer is returned unchanged, also without an x offset or with
\* an error code other than "0".
C7_ThrowsOnServiceFailureOrNull ==
  (posts # <<>> /\ spc \in {"returned", "threw"}) =>
    /\ spc = "threw" <=> (C7_ServiceFailed \/ httpBody.kind = "null")
    /\ spc = "returned" => sresult = httpBody

\* A 2xx answer with error code "1" and no x offset was returned.
C7_Witness ==
  /\ spc = "returned"
  /\ httpStatus = "ok"
  /\ sresult.kind = "object"
  /\ sresult.error = "1"
  /\ "x" \notin sresult.keys

\* C8: the drag is called with start = the centre of the handle's box and
\* end = (background box x + offset x, start y).
C8_DragGeometry ==
  \A k \in 1..Len(dragCalls) :
    /\ dragCalls[k].start.x = handleBox.x + handleBox.width \div 2
    /\ dragCalls[k].start.y = handleBox.y + handleBox.height \div 2
    /\ dragCalls[k].end.x = bgBox.x + solution.x
    /\ dragCalls[k].end.y = dragCalls[k].start.y
    /\ dpc \notin {"idle"} => (dstart = dragCalls[k].start /\ dend = dragCalls[k].end)

\* The drag was called for offset 142 on a background box at x = 300.
C8_Witness ==
  /\ Len(dragCalls) = 1
  /\ solution.x = 142
  /\ bgBox.x = 300
  /\ dragCalls[1].end = Point(442, 720)
  /\ dpc = "move"

\* C9: the attempt is rejected as VerificationFailed exactly when the
\* failure indicator was visible at the check after a completed drag, and
\* resolved true exactly when it was not; the check is made, and true
\* reported, only after a drag that returned.
C9_VerdictFollowsIndicator ==
  /\ promise = Rejected("VerificationFailed") <=> failVisible = "yes"
  /\ promise = Resolved("true") <=> failVisible = "no"
  /\ failVisible # "unchecked" => dragReturns = 1
  /\ promise = Resolved("true") => (dragReturns = 1 /\ mouse = "up")

\* The indicator was not visible after a completed drag.
C9_Witness ==
  /\ failVisible = "no"
  /\ dragReturns = 1
  /\ promise = Resolved("true")

\* C10: when the timer fires with no pair collected the outcome is false,
\* neither the solver nor the drag is ever called, and the login flow, on
\* that outcome, goes on to its post-captcha checks without printing an
\* error.
C10_NoPairIsNoChallenge ==
  /\ []((timer = "fired" /\ Len(arrived) < 2) =>
          /\ promise = Resolved("false")
          /\ solveCalls = <<>> /\ fetches = <<>> /\ posts = <<>>
          /\ dragCalls = <<>> /\ events = <<>> /\ mouse = "up")
  /\ [][(lpc = "captcha" /\ promise = Resolved("false") /\ lpc' # lpc) =>
          (lpc' = "postWait" /\ out' = out)]_vars

\* The login flow is at its error-container check after a timed-out attempt.
C10_Witness ==
  /\ timer = "fired"
  /\ Len(arrived) < 2
  /\ promise = Resolved("false")
  /\ lpc = "errorCheck"

\* C11: a failure inside the challenge flow (solver, bounding boxes, pointer
\* driver, verification) ends the listener with the promise rejected, never
\* pending; and the login flow, on a rejected promise, goes on to its
\* post-captcha checks without printing an error.
C11_FailuresAreRejections ==
  /\ [](/\ hpc = "end" =>
             \/ promise.state = "rejected"
             \/ promise = Resolved("true") /\ failVisible = "no"
        /\ (hpc = "end" /\ dfailed # "none") => promise = Rejected("DriverError")
        /\ failVisible = "yes" => promise = Rejected("VerificationFailed")
        /\ (hpc = "end" /\ dragReturns = 0) => promise.state = "rejected")
  /\ [][(lpc = "captcha" /\ promise.state = "rejected" /\ lpc' # lpc) =>
          (lpc' = "postWait" /\ out' = out)]_vars

\* The login flow went on after a pointer call of the drag threw.
C11_Witness ==
  /\ lpc = "postWait"
  /\ dfailed # "none"
  /\ promise = Rejected("DriverError")

\* The listener's positions in their order.
C12_Rank(h) ==
  CASE h = "idle" -> 0
    [] h = "bgBox" -> 1
    [] h = "solve" -> 2
    [] h = "handleBox" -> 3
    [] h = "drag" -> 4
    [] h = "settle" -> 5
    [] h = "verify" -> 6
    [] h = "end" -> 7

\* C12: the attempt's phases come in order and none is entered twice: the
\* solver is called at most once, the drag at most once and only after the
\* solver returned an accepted result, and the indicator is read only after
\* the drag returned.
C12_PhasesInOrder ==
  /\ [](/\ Len(solveCalls) <= 1
        /\ Len(dragCalls) <= 1
        /\ spc # "idle" => hpc = "solve"
        /\ dpc # "idle" => hpc = "drag"
        /\ dragCalls # <<>> =>
             /\ Len(solveCalls) = 1
             /\ spc = "idle"
             /\ Accepted(solution)
        /\ (hpc \in {"settle", "verify"} \/ failVisible # "unchecked") =>
             dragReturns = 1
        /\ promise.value \in {"VisibleThrew", "VerificationFailed", "true"} =>
             dragReturns = 1)
  /\ [][C12_Rank(hpc') >= C12_Rank(hpc)]_vars

\* An attempt went through every phase and ended on a failed verification.
C12_Witness ==
  /\ hpc = "end"
  /\ failVisible = "yes"
  /\ Len(solveCalls) = 1
  /\ Len(dragCalls) = 1
  /\ dragReturns = 1

\* url.startsWith(prefix)
C13_StartsWith(s, prefix) ==
  /\ Len(s) >= Len(prefix)
  /\ SubSeq(s, 1, Len(prefix)) = prefix

\* C13: a response is appended to the buffer only if its URL starts with the
\* host prefix; a URL that contains the prefix at a later position is not
\* appended.
C13_AppendedOnlyIfStartsWith ==
  \A k \in 1..Len(arrived) : C13_StartsWith(arrived[k], HostPrefix)

\* C14: the buffer never holds more than two URLs; whenever it holds two the
\* listener is no longer installed; a response that comes later changes
\* neither the buffer nor the number of solver calls.
C14_BufferAtMostTwo ==
  /\ [](/\ Len(captchaUrls) <= 2
        /\ Len(captchaUrls) = 2 => ~listening
        /\ Len(solveCalls) <= 1)
  /\ [][(Len(captchaUrls) = 2 /\ emitted' # emitted) =>
          (captchaUrls' = captchaUrls /\ solveCalls' = solveCalls /\ hpc' = hpc)]_vars

\* An accepted response came after the pair was collected, with the solver
\* running.
C14_Witness ==
  /\ Len(captchaUrls) = 2
  /\ late > 0
  /\ hpc = "solve"

\* The position is exactly the point p: its eased part is p and its jitter
\* is zero.
C15_At(pos, p) ==
  /\ pos.x.num = p.x * pos.x.den /\ pos.x.jnum = 0
  /\ pos.y.num = p.y * pos.y.den /\ pos.y.jnum = 0

C17_Expected(n) ==
  <<"moveToStart", "down">> \o [k \in 1..(n + 1) |-> "move"] \o <<"up">>

\* C17: a drag that returns has issued the move to start, one press,
\* steps + 1 loop moves and one release, in this order; a drag in progress
\* has issued a prefix of that.
C17_EventOrder ==
  /\ dpc = "returned" => events = C17_Expected(dsteps)
  /\ \E r \in RandomSteps :
       /\ Len(events) <= Len(C17_Expected(MinSteps + r))
       /\ events = SubSeq(C17_Expected(MinSteps + r), 1, Len(events))

\* A drag of the fewest steps returned.
C17_Witness ==
  /\ dpc = "returned"
  /\ dfailed = "none"
  /\ dsteps = MinSteps
  /\ Len(events) = MinSteps + 4

\* C18: resolve or reject is called at most once, and exactly once by the
\* time the listener's body has ended or the timer has fired with no body
\* started; the outcome false comes only from the timer and only with fewer
\* than two URLs; a timer that fires with the pair collected settles nothing.
C18_SettledOnce ==
  /\ [](/\ settleCalls <= 1
        /\ promise.state # "pending" <=> settleCalls = 1
        /\ hpc = "end" => settleCalls = 1
        /\ (timer = "fired" /\ hpc = "idle") => settleCalls = 1
        /\ promise = Resolved("false") => (timer = "fired" /\ Len(captchaUrls) < 2))
  /\ [][(timer = "armed" /\ timer' = "fired" /\ Len(captchaUrls) >= 2) =>
          (promise' = promise /\ settleCalls' = settleCalls)]_vars

\* The timer fired while the pair was being solved, and the attempt then
\* ended solved.
C18_Witness ==
  /\ timer = "fired"
  /\ Len(captchaUrls) = 2
  /\ hpc = "end"
  /\ settleCalls = 1
  /\ promise = Resolved("true")

\* C19: when the background's bounding box cannot be read (boundingBox()
\* threw or answered null) the attempt is rejected there: the solver is never
\* called, nothing is fetched or posted, and no pointer event is issued.
C19_NoBoxNoSolve ==
  promise.value \in {"NoBackgroundBox", "BackgroundBoxThrew"} =>
    /\ promise.state = "rejected"
    /\ hpc = "end"
    /\ solveCalls = <<>> /\ fetches = <<>> /\ posts = <<>> /\ spc = "idle"
    /\ dragCalls = <<>> /\ events = <<>> /\ mouse = "up" /\ dpc = "idle"

\* The background's box was null and the timer has fired since.
C19_Witness ==
  /\ promise = Rejected("NoBackgroundBox")
  /\ Len(captchaUrls) = 2
  /\ timer = "fired"

\* C20: in either login flow LOGIN_SUCCESS is printed only once the page is
\* at the for-you URL and the cookie file is written; LOGIN_SUCCESS and
\* LOGIN_ERROR are never both printed; and LOGIN_SUCCESS is never printed
\* when the login error container was visible at the post-captcha check.
C20_SuccessOnlyWhenLoggedIn ==
  /\ "LOGIN_SUCCESS" \in out => (atForYou /\ cookieFile)
  /\ ~({"LOGIN_SUCCESS", "LOGIN_ERROR"} \subseteq out)
  /\ "LOGIN_SUCCESS" \in out => ~loginErrorSeen
  /\ cookieFile => atForYou

\* A credential login printed LOGIN_SUCCESS after an attempt the timer ended.
C20_Witness ==
  /\ "LOGIN_SUCCESS" \in out
  /\ clicked
  /\ promise = Resolved("false")
  /\ lpc = "done"

\* C21: the command-line wrapper never sends a request; with a non-empty
\* image argument it calls solveCaptcha once, with kind '3d', the image and
\* neither width nor height, and ends on the validation failure with exit
\* status 1; without an image argument it ends with exit status 1 and no
\* solveCaptcha call.
C21_CliAlwaysFails ==
  /\ fetches = <<>> /\ posts = <<>>
  /\ cpc = "exited" => exitCode = 1
  /\ (cpc # "main" /\ TruthyStr(base64Image)) =>
       /\ Len(solveCalls) = 1
       /\ solveCalls[1].captchaType = "3d"
       /\ solveCalls[1].imageBase64 = base64Image
       /\ ~solveCalls[1].width.def /\ ~solveCalls[1].height.def
       /\ spc = "threw" /\ serr = "validation"
       /\ cpc = "exited" => cliErr = "validation"
  /\ (cpc # "main" /\ ~TruthyStr(base64Image)) =>
       /\ cpc = "exited"
       /\ solveCalls = <<>>
       /\ cliErr = "NoImage"

\* The wrapper exited after a call with an image of the greatest length.
C21_Witness ==
  /\ cpc = "exited"
  /\ base64Image.def
  /\ Len(base64Image.v) = MaxImageLen
  /\ exitCode = 1
  /\ cliErr = "validation"

====
